---- MODULE Spec2Model ----
(***************************************************************************)
(* Reminder bot (src/main.py): the conversation state machine that         *)
(* collects title / date / time / recurrence and deletes reminders, and    *)
(* the periodic dispatcher check_reminders_task that notifies due          *)
(* reminders and inserts the next occurrence of recurring ones.            *)
(*                                                                         *)
(* Handlers are coroutines on one event loop: a handler's database work    *)
(* is synchronous, so each conversation turn is one step; the dispatcher   *)
(* is suspended only while it awaits bot.send_message, so a run is the     *)
(* step that reaches the first send followed by one step per send result.  *)
(***************************************************************************)
EXTENDS Integers, Sequences, FiniteSets, TLC

\* ---------------------------------------------------------------- bounds
\* rows the conversation may create in one behaviour
MaxCreated == 1
\* rows already stored when the process starts
MaxStored == 2
\* rows already stored when the process starts and a user deletes meanwhile
MaxShared == 1
\* number of clock instants the behaviour walks through
MaxClock == 3

\* ------------------------------------------------------------- constants
MAIN_MENU == 0
ADDING_REMINDER == 1
SET_TITLE == 2
SET_DATE == 3
SET_TIME == 4
REMINDERS_LIST == 5
CONFIRM_DELETE == 6
\* ConversationHandler.END-like marker: no conversation for this user yet
NO_CONVERSATION == -1

\* Python None in a string column / dict value
NoneStr == "None"
\* Python None (SQL NULL) in a datetime column / dict value
NoDate == [year |-> 0, month |-> 0, day |-> 0, hour |-> 0, minute |-> 0]

\* telegram ids of the people talking to the bot
TelegramIds == {101}

\* ------------------------------------------------------------- calendar
IsLeap(y) == (y % 4 = 0 /\ y % 100 # 0) \/ y % 400 = 0

DaysInMonth(y, m) ==
  IF m = 2 THEN (IF IsLeap(y) THEN 29 ELSE 28)
  ELSE IF m \in {4, 6, 9, 11} THEN 30 ELSE 31

Min2(a, b) == IF a <= b THEN a ELSE b

\* datetime + relativedelta(years=1)
AddYears1(t) ==
  [t EXCEPT !.year = t.year + 1,
            !.day = Min2(t.day, DaysInMonth(t.year + 1, t.month))]

\* a month later with the day of the month kept as it is
AddMonths1NoClamp(t) ==
  [t EXCEPT !.year = IF t.month = 12 THEN t.year + 1 ELSE t.year,
            !.month = IF t.month = 12 THEN 1 ELSE t.month + 1]

\* datetime + relativedelta(months=1)
AddMonths1(t) ==
  LET y == IF t.month = 12 THEN t.year + 1 ELSE t.year
      m == IF t.month = 12 THEN 1 ELSE t.month + 1
  IN [t EXCEPT !.year = y, !.month = m,
               !.day = Min2(t.day, DaysInMonth(y, m))]

\* datetime + relativedelta(weeks=1)
AddWeeks1(t) ==
  LET dim == DaysInMonth(t.year, t.month)
  IN IF t.day + 7 <= dim THEN [t EXCEPT !.day = t.day + 7]
     ELSE IF t.month = 12
          THEN [t EXCEPT !.year = t.year + 1, !.month = 1,
                         !.day = t.day + 7 - dim]
          ELSE [t EXCEPT !.month = t.month + 1, !.day = t.day + 7 - dim]

\* total order of datetimes (the SQL comparison Reminder.date <= now)
Stamp(t) ==
  (((t.year * 13 + t.month) * 32 + t.day) * 24 + t.hour) * 60 + t.minute

\* ------------------------------------------------- datetime.strptime
Digits == {"0", "1", "2", "3", "4", "5", "6", "7", "8", "9"}

DigitVal(c) ==
  CASE c = "0" -> 0 [] c = "1" -> 1 [] c = "2" -> 2 [] c = "3" -> 3
    [] c = "4" -> 4 [] c = "5" -> 5 [] c = "6" -> 6 [] c = "7" -> 7
    [] c = "8" -> 8 [] c = "9" -> 9 [] OTHER -> 0

AllDigits(s) == \A i \in 1..Len(s) : s[i] \in Digits

RECURSIVE IntOf(_)
IntOf(s) ==
  IF Len(s) = 0 THEN 0
  ELSE 10 * IntOf(SubSeq(s, 1, Len(s) - 1)) + DigitVal(s[Len(s)])

\* position of the first occurrence of c in s at or after from, 0 if none
IndexFrom(s, c, from) ==
  IF \E i \in from..Len(s) : s[i] = c
  THEN CHOOSE i \in from..Len(s) :
         s[i] = c /\ \A j \in from..(i - 1) : s[j] # c
  ELSE 0

\* %d : 3[0-1] | [1-2]\d | 0[1-9] | [1-9]
MatchDay(s) ==
  /\ AllDigits(s)
  /\ \/ Len(s) = 1 /\ s[1] # "0"
     \/ Len(s) = 2 /\ IntOf(s) \in 1..31

\* %m : 1[0-2] | 0[1-9] | [1-9]
MatchMonth(s) ==
  /\ AllDigits(s)
  /\ \/ Len(s) = 1 /\ s[1] # "0"
     \/ Len(s) = 2 /\ IntOf(s) \in 1..12

\* %Y : \d\d\d\d
MatchYear(s) == AllDigits(s) /\ Len(s) = 4

\* %H : 2[0-3] | [0-1]\d | \d
MatchHour(s) ==
  /\ AllDigits(s)
  /\ \/ Len(s) = 1
     \/ Len(s) = 2 /\ IntOf(s) \in 0..23

\* %M : [0-5]\d | \d
MatchMinute(s) ==
  /\ AllDigits(s)
  /\ \/ Len(s) = 1
     \/ Len(s) = 2 /\ IntOf(s) \in 0..59

\* datetime.datetime.strptime(text, "%d.%m.%Y"); NoDate stands for ValueError
StrptimeDate(s) ==
  LET p1 == IndexFrom(s, ".", 1)
      p2 == IF p1 = 0 THEN 0 ELSE IndexFrom(s, ".", p1 + 1)
  IN IF p1 = 0 \/ p2 = 0 THEN NoDate
     ELSE LET d == SubSeq(s, 1, p1 - 1)
              m == SubSeq(s, p1 + 1, p2 - 1)
              y == SubSeq(s, p2 + 1, Len(s))
          IN IF /\ MatchDay(d) /\ MatchMonth(m) /\ MatchYear(y)
                /\ IntOf(y) >= 1
                /\ IntOf(d) <= DaysInMonth(IntOf(y), IntOf(m))
             THEN [year |-> IntOf(y), month |-> IntOf(m), day |-> IntOf(d),
                   hour |-> 0, minute |-> 0]
             ELSE NoDate

\* datetime.datetime.strptime(text, "%H:%M").time(); <<>> stands for ValueError
StrptimeTime(s) ==
  LET p == IndexFrom(s, ":", 1)
  IN IF p = 0 THEN <<>>
     ELSE LET h == SubSeq(s, 1, p - 1)
              m == SubSeq(s, p + 1, Len(s))
          IN IF MatchHour(h) /\ MatchMinute(m)
             THEN <<IntOf(h), IntOf(m)>>
             ELSE <<>>

\* datetime.combine(date.date(), time)
Combine(date, tm) == [date EXCEPT !.hour = tm[1], !.minute = tm[2]]

\* ------------------------------------------------------------ inputs
Ch(a, b, c, d, e, f, g, h, i, j) == <<a, b, c, d, e, f, g, h, i, j>>

\* texts typed in SET_TITLE
Titles == {"Meeting"}

\* texts typed in SET_DATE
DateTexts ==
  { Ch("0", "1", ".", "0", "1", ".", "2", "0", "2", "5"),
    <<"1", ".", "1", ".", "2", "0", "2", "5">>,
    Ch("3", "1", "/", "0", "2", "/", "2", "0", "2", "5"),
    Ch("3", "1", ".", "0", "2", ".", "2", "0", "2", "5"),
    <<"a", "b", "c">> }

\* texts typed in SET_TIME
TimeTexts ==
  { <<"0", "9", ":", "0", "0">>,
    <<"9", ":", "0", "0">>,
    <<"2", "5", ":", "0", "0">>,
    <<"a", "b", "c">> }

RecurringChoices == {"yearly", "monthly", "weekly", "once"}

\* callback_data tokens without a payload ("other" is a token no branch names)
PlainTokens ==
  {"add_reminder", "list_reminders", "about", "cancel", "yes", "no",
   "back_to_list", "back_to_menu", "other"} \cup RecurringChoices

\* the instants datetime.now(TIMEZONE) takes: one a week, from 25.12.2024 09:00
RECURSIVE Instant(_)
Instant(i) ==
  IF i <= 1
  THEN [year |-> 2024, month |-> 12, day |-> 25, hour |-> 9, minute |-> 0]
  ELSE AddWeeks1(Instant(i - 1))

Instants == [i \in 1..(MaxClock + 1) |-> Instant(i)]

\* ------------------------------------------------------------- state
VARIABLES
  convState,   \* ConversationHandler: telegram id -> current state
  user_data,   \* context.user_data of each telegram id
  reply,       \* the last message the bot showed to each telegram id
  users,       \* table users: row id (position) -> telegram_id
  reminders,   \* table reminders: id -> row
  nextId,      \* next primary key of table reminders
  clock,       \* index of the current instant
  run,         \* the running check_reminders_task, if any
  sent,        \* notifications delivered per reminder id (counted up to 2)
  chain,       \* reminder id -> id of the row that started its chain of occurrences
  quota        \* rows the conversation may still create

vars == <<convState, user_data, reply, users, reminders, nextId, clock, run,
          sent, chain, quota>>

convVars == <<convState, user_data, reply>>
dispVars == <<run, sent>>

EmptyUserData ==
  [keys |-> {}, title |-> NoneStr, date |-> NoDate, recurring_type |-> NoneStr,
   is_recurring |-> FALSE, delete_reminder_id |-> 0]

NoReply == [msg |-> "none", keyboard |-> "none", items |-> <<>>]

Msg(m, k) == [msg |-> m, keyboard |-> k, items |-> <<>>]

\* no run in progress; found is the count the last scan logged ("Found n
\* reminders to notify"), failed tells that the last run ended in the outer except
IdleRun(found, failed) ==
  [pc |-> "idle", queue |-> <<>>, expired |-> FALSE, found |-> found,
   failed |-> failed]

\* ------------------------------------------------------------ helpers
\* session.query(User).filter_by(telegram_id=...).first(): row id, 0 when absent
UserIdOf(tid) ==
  IF \E i \in 1..Len(users) : users[i] = tid
  THEN CHOOSE i \in 1..Len(users) : users[i] = tid
  ELSE 0

\* ascending sequence of the elements of a finite set of integers
RECURSIVE SortedSeq(_)
SortedSeq(S) ==
  IF S = {} THEN <<>>
  ELSE LET m == CHOOSE x \in S : \A y \in S : x <= y
       IN <<m>> \o SortedSeq(S \ {m})

Remove(f, id) == [i \in DOMAIN f \ {id} |-> f[i]]

\* dict.get with the key present or not
Get(ud, key, value, default) == IF key \in ud.keys THEN value ELSE default

\* ------------------------------------------------- conversation turns
\* states in which ConversationHandler routes a callback query to button_handler
CallbackStates ==
  {MAIN_MENU, SET_TITLE, SET_DATE, SET_TIME, ADDING_REMINDER, REMINDERS_LIST,
   CONFIRM_DELETE}

\* /start: entry point, MAIN_MENU handler and fallback of every other state
start(u, dbOk) ==
  /\ IF dbOk
     THEN /\ users' = IF UserIdOf(u) = 0 THEN Append(users, u) ELSE users
          /\ user_data' = [user_data EXCEPT ![u] = EmptyUserData]
          /\ reply' = [reply EXCEPT ![u] = Msg("welcome", "main")]
     ELSE /\ reply' = [reply EXCEPT ![u] = Msg("start_error", "none")]
          /\ UNCHANGED <<users, user_data>>
  /\ convState' = [convState EXCEPT ![u] = MAIN_MENU]
  /\ UNCHANGED <<reminders, nextId, clock, run, sent, chain, quota>>

\* /help: fallback of every state
help_command(u) ==
  /\ convState[u] \in CallbackStates
  /\ reply' = [reply EXCEPT ![u] = Msg("help", "main")]
  /\ convState' = [convState EXCEPT ![u] = MAIN_MENU]
  /\ UNCHANGED <<user_data, users, reminders, nextId, clock, run, sent, chain, quota>>

\* list_reminders: never writes; the keyboard built per reminder is replaced
\* by the single "back_to_menu" keyboard before the message is sent
list_reminders(u, dbOk) ==
  /\ IF dbOk
     THEN LET uid == UserIdOf(u)
              mine == SortedSeq({i \in DOMAIN reminders :
                                   reminders[i].user_id = uid})
          IN reply' = [reply EXCEPT ![u] =
               IF uid = 0 THEN Msg("user_not_found", "back")
               ELSE IF mine = <<>> THEN Msg("no_reminders", "back")
               \* reminder.date.strftime raises on a NULL date: except branch
               ELSE IF \E i \in 1..Len(mine) : reminders[mine[i]].date = NoDate
                    THEN Msg("list_error", "main")
               ELSE [msg |-> "list", keyboard |-> "back", items |-> mine]]
     ELSE reply' = [reply EXCEPT ![u] = Msg("list_error", "main")]
  /\ convState' = [convState EXCEPT ![u] = REMINDERS_LIST]
  /\ UNCHANGED <<user_data, users, reminders, nextId, clock, run, sent, chain, quota>>

\* branch 'yearly' | 'monthly' | 'weekly' | 'once' of button_handler
AddReminderBranch(u, data, dbOk) ==
  LET ud == [user_data[u] EXCEPT
               !.keys = @ \cup {"recurring_type", "is_recurring"},
               !.recurring_type = IF data = "once" THEN NoneStr ELSE data,
               !.is_recurring = (data # "once")]
      uid == UserIdOf(u)
      row == [user_id |-> uid,
              title |-> Get(ud, "title", ud.title, NoneStr),
              date |-> Get(ud, "date", ud.date, NoDate),
              is_recurring |-> Get(ud, "is_recurring", ud.is_recurring, FALSE),
              recurring_type |-> Get(ud, "recurring_type", ud.recurring_type, NoneStr),
              is_notified |-> FALSE]
      committed == dbOk /\ uid # 0
  IN /\ user_data' = [user_data EXCEPT ![u] = ud]
     /\ IF committed
        THEN /\ quota > 0
             /\ quota' = quota - 1
             /\ reminders' = reminders @@ (nextId :> row)
             /\ chain' = chain @@ (nextId :> nextId)
             /\ sent' = sent @@ (nextId :> 0)
             /\ nextId' = nextId + 1
             \* reminder.date.strftime raises on a NULL date, after the commit
             /\ reply' = [reply EXCEPT ![u] =
                  IF row.date = NoDate THEN Msg("add_error", "main")
                  ELSE Msg("added", "main")]
        ELSE /\ reply' = [reply EXCEPT ![u] = Msg("add_error", "main")]
             /\ UNCHANGED <<reminders, chain, sent, nextId, quota>>
     /\ convState' = [convState EXCEPT ![u] = MAIN_MENU]
     /\ UNCHANGED <<users, clock, run>>

\* branch 'delete_<id>' of button_handler
DeleteRequestBranch(u, id) ==
  /\ user_data' = [user_data EXCEPT ![u].keys = @ \cup {"delete_reminder_id"},
                                    ![u].delete_reminder_id = id]
  /\ reply' = [reply EXCEPT ![u] = Msg("confirm_delete", "yes_no")]
  /\ convState' = [convState EXCEPT ![u] = CONFIRM_DELETE]
  /\ UNCHANGED <<users, reminders, nextId, clock, run, sent, chain, quota>>

\* context.user_data.get('delete_reminder_id') is truthy
HasPendingDelete(u) ==
  /\ "delete_reminder_id" \in user_data[u].keys
  /\ user_data[u].delete_reminder_id # 0

\* branch 'yes' with a pending id of button_handler
ConfirmDeleteBranch(u, dbOk) ==
  LET id == user_data[u].delete_reminder_id
  IN /\ IF dbOk
        THEN IF id \in DOMAIN reminders
             THEN /\ reminders' = Remove(reminders, id)
                  /\ reply' = [reply EXCEPT ![u] = Msg("deleted", "main")]
             ELSE /\ reply' = [reply EXCEPT ![u] = Msg("not_found", "main")]
                  /\ UNCHANGED reminders
        ELSE /\ reply' = [reply EXCEPT ![u] = Msg("delete_error", "main")]
             /\ UNCHANGED reminders
     /\ convState' = [convState EXCEPT ![u] = MAIN_MENU]
     /\ UNCHANGED <<user_data, users, nextId, clock, run, sent, chain, quota>>

\* a branch that only edits the message and returns a state
Show(u, m, k, st) ==
  /\ reply' = [reply EXCEPT ![u] = Msg(m, k)]
  /\ convState' = [convState EXCEPT ![u] = st]
  /\ UNCHANGED <<user_data, users, reminders, nextId, clock, run, sent, chain, quota>>

\* a 'no' that deletes as 'yes' does
CancelDeleteAsConfirm(u) == ConfirmDeleteBranch(u, TRUE)

\* branch 'no' of button_handler
CancelDeleteBranch(u) == Show(u, "delete_cancelled", "main", MAIN_MENU)

\* callback query with a payload-free token
button_handler(u, data, dbOk) ==
  /\ convState[u] \in CallbackStates
  /\ CASE data = "add_reminder" -> Show(u, "ask_title", "cancel", SET_TITLE)
       [] data = "list_reminders" -> list_reminders(u, dbOk)
       [] data = "about" -> Show(u, "about", "main", MAIN_MENU)
       [] data = "cancel" -> Show(u, "cancelled", "main", MAIN_MENU)
       [] data \in RecurringChoices -> AddReminderBranch(u, data, dbOk)
       [] data = "yes" /\ HasPendingDelete(u) -> ConfirmDeleteBranch(u, dbOk)
       [] data = "no" -> CancelDeleteBranch(u)
       [] data = "back_to_list" -> list_reminders(u, dbOk)
       [] data = "back_to_menu" -> Show(u, "menu", "main", MAIN_MENU)
       [] OTHER ->
            /\ convState' = [convState EXCEPT ![u] = MAIN_MENU]
            /\ UNCHANGED <<user_data, reply, users, reminders, nextId, clock,
                           run, sent, chain, quota>>

\* callback query 'delete_<id>'
button_handler_delete(u, id) ==
  /\ convState[u] \in CallbackStates
  /\ DeleteRequestBranch(u, id)

set_title(u, text) ==
  /\ convState[u] = SET_TITLE
  /\ user_data' = [user_data EXCEPT ![u].keys = @ \cup {"title"},
                                    ![u].title = text]
  /\ reply' = [reply EXCEPT ![u] = Msg("ask_date", "cancel")]
  /\ convState' = [convState EXCEPT ![u] = SET_DATE]
  /\ UNCHANGED <<users, reminders, nextId, clock, run, sent, chain, quota>>

set_date(u, text) ==
  LET date == StrptimeDate(text)
  IN /\ convState[u] = SET_DATE
     /\ IF date # NoDate
        THEN /\ user_data' = [user_data EXCEPT ![u].keys = @ \cup {"date"},
                                               ![u].date = date]
             /\ reply' = [reply EXCEPT ![u] = Msg("ask_time", "cancel")]
             /\ convState' = [convState EXCEPT ![u] = SET_TIME]
        ELSE /\ reply' = [reply EXCEPT ![u] = Msg("bad_date", "cancel")]
             /\ convState' = [convState EXCEPT ![u] = SET_DATE]
             /\ UNCHANGED user_data
     /\ UNCHANGED <<users, reminders, nextId, clock, run, sent, chain, quota>>

set_time(u, text) ==
  LET tm == StrptimeTime(text)
  IN /\ convState[u] = SET_TIME
     /\ IF tm # <<>>
        THEN \* context.user_data['date'] raises KeyError when the key is
             \* absent: the handler raises and the turn changes nothing
             /\ "date" \in user_data[u].keys
             /\ user_data' = [user_data EXCEPT
                                ![u].date = Combine(user_data[u].date, tm)]
             /\ reply' = [reply EXCEPT ![u] = Msg("ask_type", "recurring")]
             /\ convState' = [convState EXCEPT ![u] = ADDING_REMINDER]
        ELSE /\ reply' = [reply EXCEPT ![u] = Msg("bad_time", "cancel")]
             /\ convState' = [convState EXCEPT ![u] = SET_TIME]
             /\ UNCHANGED user_data
     /\ UNCHANGED <<users, reminders, nextId, clock, run, sent, chain, quota>>

\* ------------------------------------------------------- dispatcher
\* a scan that forgets the is_notified filter
IsDueIgnoringFlag(row, now) ==
  /\ row.date # NoDate
  /\ Stamp(row.date) <= Stamp(now)

\* filter(Reminder.date <= now, Reminder.is_notified == False); NULL dates never match
IsDue(row, now) ==
  /\ row.date # NoDate
  /\ Stamp(row.date) <= Stamp(now)
  /\ row.is_notified = FALSE

\* a scan without its filter
DueIdsUnfiltered(store, now) == DOMAIN store

DueIds(store, now) == {i \in DOMAIN store : IsDue(store[i], now)}

\* the objects the query loaded, in primary-key order
RECURSIVE Loaded(_, _)
Loaded(store, ids) ==
  IF ids = <<>> THEN <<>>
  ELSE <<[id |-> Head(ids), row |-> store[Head(ids)]]>> \o Loaded(store, Tail(ids))

\* a loop without the "if user" test
OwnerAlwaysExists(userTable, row) == TRUE

\* session.query(User).filter_by(id=reminder.user_id).first() finds a row
OwnerExists(userTable, row) == row.user_id \in 1..Len(userTable)

\* a successor a month later for weekly reminders
NextDateWeeklyAsMonthly(row) ==
  IF row.is_recurring
  THEN CASE row.recurring_type = "yearly" -> AddYears1(row.date)
         [] row.recurring_type = "monthly" -> AddMonths1(row.date)
         [] row.recurring_type = "weekly" -> AddMonths1(row.date)
         [] OTHER -> NoDate
  ELSE NoDate

\* the date of the successor row, NoDate when none is created
NextDate(row) ==
  IF row.is_recurring
  THEN CASE row.recurring_type = "yearly" -> AddYears1(row.date)
         [] row.recurring_type = "monthly" -> AddMonths1(row.date)
         [] row.recurring_type = "weekly" -> AddWeeks1(row.date)
         [] OTHER -> NoDate
  ELSE NoDate

\* a loop that gives the run up at the first reminder without an owner
OrphanEndsLoop(q, expired, reads, store, userTable, found) ==
  IF q = <<>> THEN IdleRun(found, FALSE)
  ELSE IF reads = 0 THEN IdleRun(found, TRUE)
  ELSE IF expired /\ Head(q).id \notin DOMAIN store THEN IdleRun(found, TRUE)
  ELSE IF ~OwnerExists(userTable, Head(q).row) THEN IdleRun(found, FALSE)
  ELSE [pc |-> "sending", queue |-> q, expired |-> expired, found |-> found,
        failed |-> FALSE]

\* the for loop from the head of queue q up to the next await of send_message
\* or the end of the run.  reads is the number of database reads that succeed
\* before one raises; after a commit the loaded objects are expired, and
\* reading one whose row was deleted raises too.  Either ends the run.
RECURSIVE RunLoop(_, _, _, _, _, _)
RunLoop(q, expired, reads, store, userTable, found) ==
  IF q = <<>> THEN IdleRun(found, FALSE)
  ELSE IF reads = 0 THEN IdleRun(found, TRUE)
  ELSE IF expired /\ Head(q).id \notin DOMAIN store THEN IdleRun(found, TRUE)
  ELSE IF ~OwnerExists(userTable, Head(q).row)
       THEN RunLoop(Tail(q), expired, reads - 1, store, userTable, found)
  ELSE [pc |-> "sending", queue |-> q, expired |-> expired, found |-> found,
        failed |-> FALSE]

\* a loop that stops at the first failed delivery
BreakLoop(q, expired, reads, store, userTable, found) == IdleRun(found, FALSE)

\* except Exception: log, continue -- on with the reminder after the head of q
ContinueLoop(q, expired, reads, store, userTable, found) ==
  RunLoop(Tail(q), expired, reads, store, userTable, found)

\* a scheduler that starts the job whatever is running
InstanceAlwaysAvailable(r) == TRUE

\* add_job without max_instances: the scheduler's default of one instance per
\* job; a tick that fires while an instance runs is skipped
InstanceAvailable(r) == r.pc = "idle"

\* the scheduler starts check_reminders_task (no instance of the job running)
check_reminders_task(scanOk, reads) ==
  /\ InstanceAvailable(run)
  /\ IF scanOk
     THEN LET q == Loaded(reminders, SortedSeq(DueIds(reminders, Instants[clock])))
          IN run' = RunLoop(q, FALSE, reads, reminders, users, Len(q))
     ELSE run' = IdleRun(run.found, TRUE)
  /\ UNCHANGED <<convState, user_data, reply, users, reminders, nextId, clock,
                 sent, chain, quota>>

Bump(n) == IF n < 2 THEN n + 1 ELSE n

\* a run that forgets the flag
MarkNothing(store, id) == store

\* a dispatcher that moves the notified row to its next date
RescheduleInPlace(store, id) ==
  [store EXCEPT ![id].is_notified = TRUE, ![id].date = AddWeeks1(@)]

\* reminder.is_notified = True
MarkNotified(store, id) == [store EXCEPT ![id].is_notified = TRUE]

\* a failed commit that leaves the flag of the reminder behind
FlagSurvivesRollback(store, id) == [store EXCEPT ![id].is_notified = TRUE]

\* the commit raised: the outer except ends the run and session.close() rolls
\* back what the session held for reminder id
RolledBack(store, id) == store

\* the awaited send_message returns or raises; then flag, successor, commit and
\* the loop up to the next await
send_message_returns(sendOk, commitOk, reads) ==
  /\ run.pc = "sending"
  /\ LET r == Head(run.queue)
         next_date == NextDate(r.row)
         \* the UPDATE of a row deleted meanwhile matches nothing: the commit raises
         committed == commitOk /\ r.id \in DOMAIN reminders
         marked == MarkNotified(reminders, r.id)
         new_reminder == [user_id |-> r.row.user_id,
                          title |-> r.row.title,
                          date |-> next_date,
                          is_recurring |-> r.row.is_recurring,
                          recurring_type |-> r.row.recurring_type,
                          is_notified |-> FALSE]
     IN IF ~sendOk
        THEN /\ run' = ContinueLoop(run.queue, run.expired, reads, reminders,
                                    users, run.found)
             /\ UNCHANGED <<reminders, nextId, sent, chain, quota>>
        ELSE /\ IF committed
                THEN /\ IF next_date # NoDate
                        THEN /\ reminders' = marked @@ (nextId :> new_reminder)
                             /\ chain' = chain @@ (nextId :> chain[r.id])
                             /\ sent' = [sent EXCEPT ![r.id] = Bump(@)] @@ (nextId :> 0)
                             /\ nextId' = nextId + 1
                        ELSE /\ reminders' = marked
                             /\ sent' = [sent EXCEPT ![r.id] = Bump(@)]
                             /\ UNCHANGED <<nextId, chain>>
                     /\ run' = RunLoop(Tail(run.queue), TRUE, reads, reminders',
                                       users, run.found)
                ELSE /\ run' = IdleRun(run.found, TRUE)
                     /\ sent' = [sent EXCEPT ![r.id] = Bump(@)]
                     /\ reminders' = RolledBack(reminders, r.id)
                     /\ UNCHANGED <<nextId, chain>>
  /\ UNCHANGED <<convState, user_data, reply, users, clock, quota>>

\* time passes
ClockAdvance ==
  /\ clock < MaxClock
  /\ clock' = clock + 1
  /\ UNCHANGED <<convState, user_data, reply, users, reminders, nextId, run,
                 sent, chain, quota>>

\* ------------------------------------------------------ specifications
NoRun == IdleRun(-1, FALSE)

\* a fresh process on an empty database: the conversation with every token in
\* every state
Init ==
  /\ convState = [u \in TelegramIds |-> NO_CONVERSATION]
  /\ user_data = [u \in TelegramIds |-> EmptyUserData]
  /\ reply = [u \in TelegramIds |-> NoReply]
  /\ users = <<>>
  /\ reminders = <<>>
  /\ nextId = 1
  /\ clock = 1
  /\ run = NoRun
  /\ sent = <<>>
  /\ chain = <<>>
  /\ quota = MaxCreated

Conversation(tokens, dates, times) ==
  \/ \E u \in DOMAIN convState, dbOk \in BOOLEAN : start(u, dbOk)
  \/ \E u \in DOMAIN convState : help_command(u)
  \/ \E u \in DOMAIN convState, data \in tokens, dbOk \in BOOLEAN :
       button_handler(u, data, dbOk)
  \/ \E u \in DOMAIN convState, id \in DOMAIN reminders : button_handler_delete(u, id)
  \/ \E u \in DOMAIN convState, text \in Titles : set_title(u, text)
  \/ \E u \in DOMAIN convState, text \in dates : set_date(u, text)
  \/ \E u \in DOMAIN convState, text \in times : set_time(u, text)

\* reads counts the database reads of the loop that succeed before one raises
Dispatcher ==
  \/ \E scanOk \in BOOLEAN, reads \in 0..Cardinality(DueIds(reminders, Instants[clock])) :
       check_reminders_task(scanOk, reads)
  \/ \E sendOk, commitOk \in BOOLEAN, reads \in 0..(Len(run.queue) - 1) :
       send_message_returns(sendOk, commitOk, reads)
  \/ ClockAdvance

\* the recurrence tokens the conversation specification presses
ChatTokens == PlainTokens \ {"yearly", "monthly"}

Next == Conversation(ChatTokens, DateTexts, TimeTexts)

Spec == Init /\ [][Next]_vars

\* a process restarted on a database that holds reminders of earlier
\* conversations, all due on 01.01.2025 09:00
StoredDate == [year |-> 2025, month |-> 1, day |-> 1, hour |-> 9, minute |-> 0]

StoredRow(kind) ==
  [user_id |-> 1, title |-> "Meeting", date |-> StoredDate,
   is_recurring |-> (kind # "once"),
   recurring_type |-> IF kind = "once" THEN NoneStr ELSE kind,
   is_notified |-> FALSE]

InitStored(rows) ==
  /\ convState = [u \in TelegramIds |-> NO_CONVERSATION]
  /\ user_data = [u \in TelegramIds |-> EmptyUserData]
  /\ reply = [u \in TelegramIds |-> NoReply]
  /\ users = <<101>>
  /\ \E n \in 0..rows : \E kind \in RecurringChoices :
       /\ reminders = [i \in 1..n |-> StoredRow(kind)]
       /\ nextId = n + 1
       /\ sent = [i \in 1..n |-> 0]
       /\ chain = [i \in 1..n |-> i]
  /\ clock = 1
  /\ run = NoRun
  /\ quota = 0

\* the dispatcher and the clock
SpecDispatch == InitStored(MaxStored) /\ [][Dispatcher]_vars

\* the dispatcher, the clock, and a user who deletes reminders meanwhile
NextShared ==
  \/ Dispatcher
  \/ \E u \in DOMAIN convState : start(u, TRUE)
  \/ \E u \in DOMAIN convState, id \in DOMAIN reminders : button_handler_delete(u, id)
  \/ \E u \in DOMAIN convState, data \in {"yes", "no"} : button_handler(u, data, TRUE)

SpecShared == InitStored(MaxShared) /\ [][NextShared]_vars

\* as InitStored, and the first stored row may have lost its owner (a users row
\* removed from the database out of band: the case "if user:" guards against)
InitLive ==
  /\ convState = [u \in TelegramIds |-> NO_CONVERSATION]
  /\ user_data = [u \in TelegramIds |-> EmptyUserData]
  /\ reply = [u \in TelegramIds |-> NoReply]
  /\ users = <<101>>
  /\ \E n \in 1..MaxStored : \E kind \in RecurringChoices : \E owner \in {1, 2} :
       /\ reminders = [i \in 1..n |->
                         IF i = 1 THEN [StoredRow(kind) EXCEPT !.user_id = owner]
                         ELSE StoredRow(kind)]
       /\ nextId = n + 1
       /\ sent = [i \in 1..n |-> 0]
       /\ chain = [i \in 1..n |-> i]
  /\ clock = 1
  /\ run = NoRun
  /\ quota = 0

\* ids a behaviour of the dispatcher specifications can allocate: a chain has at
\* most one row per instant
LiveIds == 1..(MaxStored * MaxClock)

\* the scheduler fires the interval job and the scan and the reads succeed
TickSucceeds ==
  check_reminders_task(TRUE, Cardinality(DueIds(reminders, Instants[clock])))

\* an awaited send returns and no Repository call raises: either the delivery
\* failed, or it succeeded and the commit went through
Proceeds ==
  /\ run.pc = "sending"
  /\ \E sendOk \in BOOLEAN :
       send_message_returns(sendOk, TRUE, Len(run.queue) - 1)

\* the send awaited for a reminder other than the first succeeds and so does
\* the commit
Delivers ==
  /\ run.pc = "sending" /\ Head(run.queue).id # 1
  /\ send_message_returns(TRUE, TRUE, Len(run.queue) - 1)

\* the interval trigger keeps firing; Repository calls succeed again and again;
\* the Notifier succeeds again and again for every reminder but the first,
\* whose delivery may fail for ever
SpecLive ==
  /\ InitLive
  /\ [][Dispatcher]_vars
  /\ WF_vars(TickSucceeds)
  /\ SF_vars(Proceeds)
  /\ SF_vars(Delivers)

TypeOK ==
  /\ \A u \in DOMAIN convState : convState[u] \in CallbackStates \cup {NO_CONVERSATION}
  /\ run.pc \in {"idle", "sending"}
  /\ nextId \in Nat

\* ------------------------------------------------------------ claims
QueueIds(q) == {q[i].id : i \in 1..Len(q)}

\* glossary: a stored reminder is due when its timestamp is at or before the
\* current time and it has not been notified
DueIn(store, now, id) ==
  /\ id \in DOMAIN store
  /\ store[id].date # NoDate
  /\ Stamp(store[id].date) <= Stamp(now)
  /\ ~store[id].is_notified

DueNow(id) == DueIn(reminders, Instants[clock], id)

NothingDue == \A id \in DOMAIN reminders : ~DueNow(id)

\* the reminder whose send_message is awaited
Current == Head(run.queue).id

\* a step in which the awaited send_message succeeded (the delivery count of the
\* current reminder grows)
DeliveryStep == run.pc = "sending" /\ sent' # sent

\* a step in which the awaited send_message raised
SendFailStep ==
  /\ run.pc = "sending"
  /\ sent[Current] < 2
  /\ sent' = sent
  /\ run' # run

\* days from 01.01.0001 to the date of t
DaysBeforeYear(y) ==
  365 * (y - 1) + ((y - 1) \div 4) - ((y - 1) \div 100) + ((y - 1) \div 400)

RECURSIVE DaysBeforeMonth(_, _)
DaysBeforeMonth(y, m) ==
  IF m <= 1 THEN 0 ELSE DaysBeforeMonth(y, m - 1) + DaysInMonth(y, m - 1)

Ordinal(t) == DaysBeforeYear(t.year) + DaysBeforeMonth(t.year, t.month) + t.day

ValidDate(t) ==
  /\ t.month \in 1..12
  /\ t.day \in 1..DaysInMonth(t.year, t.month)

\* spec 4.2: t2 is the next occurrence of t for the recurrence kind
IsNextOccurrence(t, kind, t2) ==
  /\ ValidDate(t2)
  /\ t2.hour = t.hour /\ t2.minute = t.minute
  /\ CASE kind = "weekly" -> Ordinal(t2) = Ordinal(t) + 7
       [] kind = "monthly" ->
            /\ t2.year * 12 + t2.month = t.year * 12 + t.month + 1
            /\ t2.day = IF ValidDate([t2 EXCEPT !.day = t.day])
                        THEN t.day ELSE DaysInMonth(t2.year, t2.month)
       [] kind = "yearly" ->
            /\ t2.year = t.year + 1 /\ t2.month = t.month
            /\ t2.day = IF ValidDate([t2 EXCEPT !.day = t.day])
                        THEN t.day ELSE DaysInMonth(t2.year, t2.month)
       [] OTHER -> FALSE

\* C1: the Notifier is successfully invoked at most once for each stored
\* Reminder row, over any sequence of dispatcher runs, also when the commit
\* after a delivery fails.
C1_NotifiedAtMostOnce == \A id \in DOMAIN sent : sent[id] <= 1

\* the durable effect of notifying reminder id: the flag is set, a recurring
\* reminder gets exactly one successor row, every other row is untouched
NotifiedEffect(id) ==
  LET r == reminders[id]
      new == DOMAIN reminders' \ DOMAIN reminders
  IN /\ id \in DOMAIN reminders'
     /\ reminders'[id] = [r EXCEPT !.is_notified = TRUE]
     /\ \A j \in DOMAIN reminders \ {id} :
          j \in DOMAIN reminders' /\ reminders'[j] = reminders[j]
     /\ IF r.recurring_type \in {"weekly", "monthly", "yearly"}
        THEN /\ Cardinality(new) = 1
             /\ \A j \in new :
                  /\ reminders'[j].user_id = r.user_id
                  /\ reminders'[j].title = r.title
                  /\ reminders'[j].recurring_type = r.recurring_type
                  /\ reminders'[j].is_notified = FALSE
                  /\ IsNextOccurrence(r.date, r.recurring_type, reminders'[j].date)
        ELSE new = {}

C3_OneUnnotifiedPerChain ==
  \A root \in DOMAIN chain :
    Cardinality({i \in DOMAIN reminders :
                   chain[i] = root /\ ~reminders[i].is_notified}) <= 1

\* a chain of a notified row and its unnotified successor, after the user deleted
\* a row
C3_Witness ==
  /\ \E i, j \in DOMAIN reminders :
       /\ i # j /\ chain[i] = chain[j]
       /\ reminders[i].is_notified /\ ~reminders[j].is_notified
  /\ \E u \in DOMAIN reply : reply[u].msg = "deleted"

\* C4: when the Notifier call fails for a due reminder r, r keeps notified =
\* false, no successor is inserted, no other row changes, the run goes on with
\* the next due reminder, and r is still due, so the next scan selects it again
\* (a scan that reaches a send has loaded every due reminder).
C4_FailedDeliveryDefers ==
  [][/\ SendFailStep =>
          /\ reminders' = reminders /\ nextId' = nextId
          /\ DueIn(reminders', Instants[clock'], Current)
          /\ IF Tail(run.queue) = <<>>
             THEN run'.pc = "idle" /\ ~run'.failed
             ELSE \/ run'.pc = "sending" /\ run'.queue = Tail(run.queue)
                  \/ run'.pc = "idle" /\ run'.failed
     /\ (run.pc = "idle" /\ run'.pc = "sending") =>
          \A id \in DOMAIN reminders : DueNow(id) => id \in QueueIds(run'.queue)]_vars

\* a run that found two due reminders awaits the second one after the delivery
\* of the first one failed: the first is still due, unnotified and undelivered
C4_Witness ==
  /\ run.pc = "sending" /\ run.found = 2 /\ Len(run.queue) = 1
  /\ \E id \in DOMAIN reminders :
       /\ id < Current
       /\ DueNow(id)
       /\ sent[id] = 0

\* C6: a run started when no reminder is due (as right after a run that
\* delivered and committed every due reminder) sends nothing, inserts nothing
\* and leaves the store unchanged.
C6_SecondRunIdle ==
  [][(run.pc = "idle" /\ NothingDue) =>
       (run'.pc = "idle" /\ sent' = sent /\ reminders' = reminders)]_vars

\* after a delivery was committed a further scan found nothing to notify
C6_Witness ==
  /\ run.pc = "idle" /\ run.found = 0 /\ ~run.failed
  /\ \E id \in DOMAIN reminders : reminders[id].is_notified /\ sent[id] = 1

\* C5: every due reminder whose owner exists is eventually delivered and marked
\* notified when the dispatcher keeps ticking and the Notifier and Repository
\* calls for it succeed again and again; another reminder whose delivery keeps
\* failing, or whose owner is missing, does not prevent it.
C5_DueIsEventuallyNotified ==
  \A id \in LiveIds \ {1} :
    (DueNow(id) /\ OwnerExists(users, reminders[id]))
      ~> (id \in DOMAIN reminders /\ reminders[id].is_notified /\ sent[id] >= 1)

\* the second reminder was delivered and marked while the first one, found due by
\* the same scan, is still due and was never delivered
C5_Witness ==
  /\ 2 \in DOMAIN reminders /\ reminders[2].is_notified /\ sent[2] >= 1
  /\ run.found = 2
  /\ DueNow(1) /\ sent[1] = 0

\* spec "Validation policy": a text that is exactly DD.MM.YYYY and names a real
\* calendar date
ExactDate(s) ==
  /\ Len(s) = 10 /\ s[3] = "." /\ s[6] = "."
  /\ AllDigits(SubSeq(s, 1, 2)) /\ AllDigits(SubSeq(s, 4, 5))
  /\ AllDigits(SubSeq(s, 7, 10))
  /\ IntOf(SubSeq(s, 7, 10)) >= 1
  /\ IntOf(SubSeq(s, 4, 5)) \in 1..12
  /\ IntOf(SubSeq(s, 1, 2)) \in
       1..DaysInMonth(IntOf(SubSeq(s, 7, 10)), IntOf(SubSeq(s, 4, 5)))

\* spec "Validation policy": a text that is exactly HH:MM on the 24-hour clock
ExactTime(s) ==
  /\ Len(s) = 5 /\ s[3] = ":"
  /\ AllDigits(SubSeq(s, 1, 2)) /\ AllDigits(SubSeq(s, 4, 5))
  /\ IntOf(SubSeq(s, 1, 2)) \in 0..23
  /\ IntOf(SubSeq(s, 4, 5)) \in 0..59

\* the turn of u re-prompts: same state, same scratch, same store
Stays(u) ==
  /\ convState'[u] = convState[u]
  /\ user_data' = user_data
  /\ reminders' = reminders /\ nextId' = nextId

\* C7: in SET_DATE a text that is not exactly DD.MM.YYYY naming a real date, and
\* in SET_TIME a text that is not exactly HH:MM, leaves the conversation in the
\* same state, leaves the session scratch unchanged and creates or changes no
\* reminder.
C7_InvalidInputStays ==
  [][\A u \in DOMAIN convState :
       /\ \A text \in DateTexts :
            (~ExactDate(text) /\ set_date(u, text)) => Stays(u)
       /\ \A text \in TimeTexts :
            (~ExactTime(text) /\ set_time(u, text)) => Stays(u)]_vars

\* the rows a step inserts
Inserted == DOMAIN reminders' \ DOMAIN reminders

\* C8: the conversation creates a row only on a recurrence choice received in
\* ADDING_REMINDER, after a title, a date and a time were accepted; the row
\* carries that title, that timestamp, the chosen kind, the current user as owner
\* and notified = false.  A recurrence choice in any other state creates no row.
C8_CreatedOnlyOnConfirmRecurrence ==
  [][\A id \in Inserted :
       \E u \in DOMAIN convState :
         /\ convState[u] = ADDING_REMINDER
         /\ {"title", "date"} \subseteq user_data[u].keys
         /\ reminders'[id].title = user_data[u].title
         /\ reminders'[id].date = user_data[u].date
         /\ reminders'[id].date # NoDate
         /\ reminders'[id].recurring_type \in {"weekly", "monthly", "yearly", NoneStr}
         /\ reminders'[id].user_id = UserIdOf(u)
         /\ reminders'[id].is_notified = FALSE]_vars

\* the turns after which the session scratch is to be empty
ClearingTurn(u) ==
  \/ \E dbOk \in BOOLEAN : button_handler(u, "cancel", dbOk)
  \/ \E dbOk \in BOOLEAN : button_handler(u, "back_to_menu", dbOk)
  \/ /\ convState[u] = ADDING_REMINDER
     /\ \E data \in RecurringChoices :
          button_handler(u, data, TRUE) /\ Inserted # {}
  \/ start(u, TRUE)

\* C9: the session scratch is empty, and the state is MAIN_MENU, after "cancel"
\* or "back to menu" in any state, after the add flow persisted a reminder, and
\* after the session-start command in any state.
C9_ScratchCleared ==
  [][\A u \in DOMAIN convState :
       ClearingTurn(u) =>
         (user_data'[u].keys = {} /\ convState'[u] = MAIN_MENU)]_vars

\* C10: a row is removed only by "yes" received in CONFIRM_DELETE, and it is the
\* row the delete request named; after "no", and after a completed deletion, the
\* pending-delete id is discarded.
C10_RemovedOnlyOnConfirmedYes ==
  [][\A u \in DOMAIN convState :
       /\ \A id \in DOMAIN reminders \ DOMAIN reminders' :
            /\ convState[u] = CONFIRM_DELETE
            /\ HasPendingDelete(u) /\ user_data[u].delete_reminder_id = id
       /\ (\/ \E dbOk \in BOOLEAN : button_handler(u, "no", dbOk)
           \/ DOMAIN reminders' # DOMAIN reminders /\ Inserted = {})
            => "delete_reminder_id" \notin user_data'[u].keys]_vars

\* C11: after a delete request, "no" in CONFIRM_DELETE leaves the reminder row
\* in place with every attribute unchanged, changes no other row, and the
\* conversation state is MAIN_MENU.
C11_NoKeepsReminder ==
  [][\A u \in DOMAIN convState :
       (/\ convState[u] = CONFIRM_DELETE
        /\ \E dbOk \in BOOLEAN : button_handler(u, "no", dbOk))
         => (/\ reminders' = reminders /\ nextId' = nextId
             /\ convState'[u] = MAIN_MENU)]_vars

\* the user asked to delete a stored reminder and answered "no": the
\* cancellation is shown, the state is MAIN_MENU and the reminder is stored
C11_Witness ==
  \E u \in DOMAIN convState :
    /\ reply[u].msg = "delete_cancelled"
    /\ convState[u] = MAIN_MENU
    /\ HasPendingDelete(u)
    /\ user_data[u].delete_reminder_id \in DOMAIN reminders

\* a callback query of u whose token no branch of button_handler applies to
UnrecognizedTurn(u) ==
  \E dbOk \in BOOLEAN :
    \/ button_handler(u, "other", dbOk)
    \/ ~HasPendingDelete(u) /\ button_handler(u, "yes", dbOk)

\* C12: in every conversation state an unrecognized or inapplicable action
\* token ("yes" with no pending-delete id) leaves the conversation in its
\* current state and changes neither the session scratch nor the store.
C12_UnrecognizedIsNoOp ==
  [][\A u \in DOMAIN convState :
       UnrecognizedTurn(u) =>
         (/\ convState'[u] = convState[u]
          /\ user_data' = user_data
          /\ reminders' = reminders /\ users' = users)]_vars

\* the reminder ids for which keyboard k of a message listing items carries a
\* delete button: of the keyboards the handlers send (main, cancel, yes_no,
\* recurring, back) none carries one
KeyboardDeleteIds(k, items) ==
  IF k \in {"main", "cancel", "yes_no", "recurring", "back", "none"}
  THEN {}
  ELSE {items[i] : i \in 1..Len(items)}

\* the ids of the reminders of u, in insertion order
RemindersOf(u) ==
  SortedSeq({i \in DOMAIN reminders : reminders[i].user_id = UserIdOf(u)})

\* C13: after "list reminders" in MAIN_MENU the message lists all reminders of
\* the user in insertion order and offers for each a delete action keyed by its
\* id; the resulting state is REMINDERS_LIST.  (Stated for a user whose
\* reminders all carry a timestamp.)
C13_ListOffersDelete ==
  [][\A u \in DOMAIN convState :
       (/\ convState[u] = MAIN_MENU
        /\ UserIdOf(u) # 0
        /\ \A i \in DOMAIN reminders : reminders[i].date # NoDate
        /\ button_handler(u, "list_reminders", TRUE))
         => (/\ convState'[u] = REMINDERS_LIST
             /\ reply'[u].items = RemindersOf(u)
             /\ \A i \in 1..Len(RemindersOf(u)) :
                  RemindersOf(u)[i] \in
                    KeyboardDeleteIds(reply'[u].keyboard, reply'[u].items))]_vars

\* a conversation turn of u in which the Repository raises: session start,
\* list reminders, create reminder, delete reminder
RepositoryErrorTurn(u) ==
  \/ start(u, FALSE)
  \/ \E data \in {"list_reminders", "back_to_list"} \cup RecurringChoices :
       button_handler(u, data, FALSE)
  \/ HasPendingDelete(u) /\ button_handler(u, "yes", FALSE)

\* C14: whenever a Repository error occurs during a conversation turn the
\* resulting state is MAIN_MENU and the reply carries the main-menu keyboard.
C14_RepositoryErrorToMainMenu ==
  [][\A u \in DOMAIN convState :
       RepositoryErrorTurn(u) =>
         (convState'[u] = MAIN_MENU /\ reply'[u].keyboard = "main")]_vars

\* a recurrence choice of u that ends with the error reply of the add flow
AddFailureTurn(u) ==
  /\ reply'[u].msg = "add_error"
  /\ \E data \in RecurringChoices, dbOk \in BOOLEAN : button_handler(u, data, dbOk)

\* C15: whenever the recurrence-choice step reports a failure to the user, that
\* turn created no Reminder row: the store is as before, the state is MAIN_MENU.
C15_AddErrorCreatesNothing ==
  [][\A u \in DOMAIN convState :
       AddFailureTurn(u) =>
         (/\ reminders' = reminders /\ nextId' = nextId
          /\ convState'[u] = MAIN_MENU)]_vars

\* ------------------------------------------------ recurrence arithmetic
At(y, mo, d, h, mi) == [year |-> y, month |-> mo, day |-> d, hour |-> h, minute |-> mi]

\* timestamps and recurrence kinds of the stored reminder: month ends, a leap
\* day, a year end
RecurInputs ==
  ({At(2024, 1, 31, 10, 0), At(2024, 2, 29, 8, 0), At(2023, 12, 31, 23, 59)}
     \X {"monthly", "yearly"})
  \cup ({At(2024, 10, 31, 10, 0), At(2024, 11, 30, 0, 0), At(2024, 12, 25, 9, 0),
          At(2024, 12, 31, 10, 0)} \X {"weekly", "monthly", "yearly"})

\* a database that holds one recurring reminder
InitRecur ==
  /\ convState = [u \in TelegramIds |-> NO_CONVERSATION]
  /\ user_data = [u \in TelegramIds |-> EmptyUserData]
  /\ reply = [u \in TelegramIds |-> NoReply]
  /\ users = <<101>>
  /\ \E in \in RecurInputs :
       reminders = <<[StoredRow(in[2]) EXCEPT !.date = in[1]]>>
  /\ nextId = 2
  /\ sent = <<0>>
  /\ chain = <<1>>
  /\ clock = 1
  /\ run = NoRun
  /\ quota = 0

SpecRecur == InitRecur /\ [][Dispatcher]_vars

\* the two occurrences the claim names
RecurrenceExamples ==
  /\ NextDate([StoredRow("monthly") EXCEPT !.date = At(2025, 1, 31, 10, 0)])
       = At(2025, 2, 28, 10, 0)
  /\ NextDate([StoredRow("yearly") EXCEPT !.date = At(2024, 2, 29, 8, 0)])
       = At(2025, 2, 28, 8, 0)

\* C16: the timestamp of the successor the dispatcher inserts is the next
\* occurrence: weekly exactly 7 days later; monthly one calendar month later,
\* the day kept when it exists and otherwise clamped to the month's last day;
\* yearly one calendar year later with Feb 29 rolled to Feb 28; the time of day
\* is unchanged and the result is a valid date strictly later than the input.
C16_SuccessorIsNextOccurrence ==
  [][/\ RecurrenceExamples
     /\ run.pc = "sending" =>
          \A j \in Inserted :
            /\ IsNextOccurrence(Head(run.queue).row.date,
                                Head(run.queue).row.recurring_type,
                                reminders'[j].date)
            /\ Stamp(reminders'[j].date) > Stamp(Head(run.queue).row.date)]_vars

\* the yearly reminder of 29.02.2024 08:00 was notified and its successor is
\* dated 28.02.2025 08:00
C16_Witness ==
  \E i, j \in DOMAIN reminders :
    /\ reminders[i].date = At(2024, 2, 29, 8, 0) /\ reminders[i].is_notified
    /\ reminders[i].recurring_type = "yearly"
    /\ chain[j] = chain[i]
    /\ reminders[j].date = At(2025, 2, 28, 8, 0) /\ ~reminders[j].is_notified

\* the queue q2 is what is left of q after some of its head was processed
LaterPartOf(q2, q) ==
  \E k \in 1..Len(q) : q2 = SubSeq(q, k + 1, Len(q))

\* C17: two dispatcher runs never execute concurrently: while a run is
\* suspended in a send no new run starts -- a step either leaves the run where
\* it is, moves the same run on to a later reminder of its own scan, or ends it.
C17_NoConcurrentRuns ==
  [][run.pc = "sending" =>
       \/ run' = run
       \/ run'.pc = "idle" /\ run'.found = run.found
       \/ /\ run'.pc = "sending" /\ run'.found = run.found
          /\ LaterPartOf(run'.queue, run.queue)]_vars

\* a run that found two due reminders is suspended in its second send while
\* the clock has moved on twice since the process started
C17_Witness ==
  /\ run.pc = "sending" /\ run.found = 2 /\ Len(run.queue) = 1
  /\ run.expired
  /\ clock >= 3

\* C18: a run invokes the Notifier only for reminders that at the run's scan
\* had timestamp <= now and notified = false: the scan queues exactly such
\* rows, the run never adds a row to its queue (so never a successor inserted
\* during the run), and a queued row is never an already-notified one.
C18_OnlyScannedDueAreNotified ==
  [][/\ (run.pc = "idle" /\ run'.pc = "sending") =>
          \A i \in 1..Len(run'.queue) :
            /\ DueNow(run'.queue[i].id)
            /\ run'.queue[i].row = reminders[run'.queue[i].id]
     /\ (run.pc = "sending" /\ run'.pc = "sending") =>
          /\ QueueIds(run'.queue) \subseteq QueueIds(run.queue)
          /\ Inserted \cap QueueIds(run'.queue) = {}
     /\ run'.pc = "sending" =>
          /\ ~Head(run'.queue).row.is_notified
          /\ Stamp(Head(run'.queue).row.date) <= Stamp(Instants[clock'])
          /\ Head(run'.queue).id \in DOMAIN reminders' =>
               ~reminders'[Head(run'.queue).id].is_notified]_vars

\* a run that has committed a delivery is suspended in a send while the
\* successor it inserted is already overdue and is not in its queue
C18_Witness ==
  /\ run.pc = "sending" /\ run.expired
  /\ \E j \in DOMAIN reminders :
       /\ chain[j] # j
       /\ DueNow(j)
       /\ j \notin QueueIds(run.queue)

\* row j is the successor of row i
SuccessorOf(j, i) ==
  /\ j # i /\ chain[j] = chain[i]
  /\ IsNextOccurrence(reminders[i].date, reminders[i].recurring_type,
                      reminders[j].date)

\* no recurring row is notified without its successor, and no successor is
\* stored while its predecessor is unnotified
DurableTogether ==
  /\ \A i \in DOMAIN reminders :
       (reminders[i].is_recurring /\ reminders[i].is_notified) =>
         \E j \in DOMAIN reminders : SuccessorOf(j, i)
  /\ \A j \in DOMAIN reminders :
       chain[j] # j =>
         \E i \in DOMAIN reminders : SuccessorOf(j, i) /\ reminders[i].is_notified

\* the send succeeded and the commit for the current reminder raised
CommitFailStep ==
  /\ run.pc = "sending"
  /\ \E reads \in 0..Len(run.queue) : send_message_returns(TRUE, FALSE, reads)

\* C19: the notified flag of a recurring reminder and its successor are durable
\* together or not at all; when the commit for reminder r fails, neither
\* becomes durable, the run stops, what earlier reminders of the run committed
\* remains, and r and the unprocessed reminders are still due.
C19_AllOrNothing ==
  /\ []DurableTogether
  /\ [][CommitFailStep =>
          /\ reminders' = reminders /\ nextId' = nextId
          /\ run'.pc = "idle"
          /\ \A id \in QueueIds(run.queue) :
               DueIn(reminders', Instants[clock'], id)]_vars

\* a run that found two due reminders committed the first one (notified, with
\* its successor) and stopped at the failed commit of the second, which was
\* delivered and is still due
C19_Witness ==
  /\ run.pc = "idle" /\ run.failed /\ run.found = 2
  /\ \E a, b \in DOMAIN reminders :
       /\ reminders[a].is_notified /\ reminders[a].is_recurring
       /\ \E j \in DOMAIN reminders : SuccessorOf(j, a)
       /\ sent[b] >= 1 /\ DueNow(b)

\* the dispatcher on a database in which the first reminder may be an orphan
SpecOrphan == InitLive /\ [][Dispatcher]_vars

\* glossary: a stored reminder whose owning User record is missing
IsOrphan(id) ==
  /\ id \in DOMAIN reminders
  /\ \A k \in 1..Len(users) : reminders[id].user_id # k

\* the due reminders that have an owner
DueOwned == {id \in DOMAIN reminders : DueNow(id) /\ ~IsOrphan(id)}

\* C20: the dispatcher skips a due orphan: the Notifier is never invoked for
\* it, its flag stays false, it gets no successor and it stays due; the other
\* due reminders of the run are processed: a scan whose reads succeed goes on
\* to the send of the first due reminder that has an owner.
C20_OrphanIsSkipped ==
  /\ [](\A id \in DOMAIN reminders :
          IsOrphan(id) =>
            /\ sent[id] = 0 /\ ~reminders[id].is_notified
            /\ \A j \in DOMAIN reminders : j # id => chain[j] # chain[id]
            /\ run.pc = "sending" => Current # id)
  /\ [][/\ \A id \in DOMAIN reminders :
            (IsOrphan(id) /\ DueNow(id)) =>
              DueIn(reminders', Instants[clock'], id)
        /\ (DueOwned # {} /\ TickSucceeds) =>
             /\ run'.pc = "sending"
             /\ Head(run'.queue).id \in DueOwned
             /\ \A id \in DueOwned : Head(run'.queue).id <= id]_vars

\* the second reminder of a run that found two was delivered and committed,
\* while the first, an orphan, is still due, unnotified and never delivered
C20_Witness ==
  /\ IsOrphan(1) /\ DueNow(1) /\ sent[1] = 0
  /\ run.found = 2
  /\ \E id \in DOMAIN reminders :
       id # 1 /\ reminders[id].is_notified /\ sent[id] = 1

\* ----------------------------------- conversation and dispatcher together
\* a database without reminders and a registered user who may add MaxCreated
\* reminders
InitFrame ==
  /\ convState = [u \in TelegramIds |-> NO_CONVERSATION]
  /\ user_data = [u \in TelegramIds |-> EmptyUserData]
  /\ reply = [u \in TelegramIds |-> NoReply]
  /\ users = <<101>>
  /\ reminders = <<>>
  /\ nextId = 1
  /\ sent = <<>>
  /\ chain = <<>>
  /\ clock = 1
  /\ run = NoRun
  /\ quota = MaxCreated

\* the tokens and texts of an add flow and of a delete flow
FrameTokens == {"add_reminder", "weekly", "yes"}
FrameDates == {Ch("0", "1", ".", "0", "1", ".", "2", "0", "2", "5")}
FrameTimes == {<<"0", "9", ":", "0", "0">>}

\* the dispatcher, and a user who adds and deletes reminders meanwhile
NextFrame ==
  \/ Dispatcher
  \/ \E u \in DOMAIN convState : start(u, TRUE)
  \/ \E u \in DOMAIN convState, data \in FrameTokens : button_handler(u, data, TRUE)
  \/ \E u \in DOMAIN convState, id \in DOMAIN reminders : button_handler_delete(u, id)
  \/ \E u \in DOMAIN convState, text \in Titles : set_title(u, text)
  \/ \E u \in DOMAIN convState, text \in FrameDates : set_date(u, text)
  \/ \E u \in DOMAIN convState, text \in FrameTimes : set_time(u, text)

SpecFrame == InitFrame /\ [][NextFrame]_vars

\* row id keeps owner, title, timestamp and recurrence kind
SameAttributes(id) ==
  /\ reminders'[id].user_id = reminders[id].user_id
  /\ reminders'[id].title = reminders[id].title
  /\ reminders'[id].date = reminders[id].date
  /\ reminders'[id].recurring_type = reminders[id].recurring_type
  /\ reminders'[id].is_recurring = reminders[id].is_recurring

\* C21: an existing row never changes owner, title, timestamp or recurrence
\* kind; its notified flag changes only from false to true and only in a
\* dispatcher step that delivered it; a row disappears only in a conversation
\* turn that confirms a deletion, never in a dispatcher step.
C21_RowsAreImmutable ==
  [][/\ \A id \in DOMAIN reminders \cap DOMAIN reminders' :
          /\ SameAttributes(id)
          /\ reminders'[id].is_notified # reminders[id].is_notified =>
               /\ ~reminders[id].is_notified /\ reminders'[id].is_notified
               /\ run.pc = "sending" /\ Current = id
               /\ \E reads \in 0..Len(run.queue) :
                    send_message_returns(TRUE, TRUE, reads)
               /\ convState' = convState /\ user_data' = user_data
     /\ DOMAIN reminders \ DOMAIN reminders' # {} =>
          /\ run' = run /\ sent' = sent
          /\ \E u \in DOMAIN convState :
               HasPendingDelete(u) /\ button_handler(u, "yes", TRUE)]_vars

\* the reminder the user added was notified by the dispatcher, its successor
\* was inserted, and the user then deleted one of the two rows
C21_Witness ==
  /\ \E id \in DOMAIN sent : sent[id] = 1
  /\ nextId = 3
  /\ Cardinality(DOMAIN reminders) = 1
  /\ \E u \in DOMAIN reply : reply[u].msg = "deleted"

\* ------------------------------------------------------------ two users
\* telegram ids of two people talking to the bot
TwoTelegramIds == {101, 202}

\* both are registered; the database holds one reminder, owned by the first
InitTwoUsers ==
  /\ convState = [u \in TwoTelegramIds |-> NO_CONVERSATION]
  /\ user_data = [u \in TwoTelegramIds |-> EmptyUserData]
  /\ reply = [u \in TwoTelegramIds |-> NoReply]
  /\ users = <<101, 202>>
  /\ reminders = <<StoredRow("once")>>
  /\ nextId = 2
  /\ sent = <<0>>
  /\ chain = <<1>>
  /\ clock = 1
  /\ run = NoRun
  /\ quota = MaxCreated

\* the turns of the two conversations: session start, recurrence choice,
\* delete request, yes, no
NextTwoUsers ==
  \/ \E u \in DOMAIN convState : start(u, TRUE)
  \/ \E u \in DOMAIN convState, data \in {"weekly", "yes", "no"} :
       button_handler(u, data, TRUE)
  \/ \E u \in DOMAIN convState, id \in DOMAIN reminders : button_handler_delete(u, id)

SpecTwoUsers == InitTwoUsers /\ [][NextTwoUsers]_vars

\* a conversation turn of u
TurnOf(u) ==
  \/ start(u, TRUE)
  \/ \E data \in {"weekly", "yes", "no"} : button_handler(u, data, TRUE)
  \/ \E id \in DOMAIN reminders : button_handler_delete(u, id)

\* C22: events in one user's conversation never affect another user's data: a
\* row created by a turn is owned by the user who sent the event, a confirmed
\* deletion removes only a row owned by the user who confirmed, and a turn
\* leaves every other user's session scratch as it was.
C22_UsersAreIsolated ==
  [][\A u \in DOMAIN convState :
       TurnOf(u) =>
         /\ \A id \in Inserted : reminders'[id].user_id = UserIdOf(u)
         /\ \A id \in DOMAIN reminders \ DOMAIN reminders' :
              reminders[id].user_id = UserIdOf(u)
         /\ \A v \in DOMAIN convState \ {u} :
              user_data'[v] = user_data[v] /\ convState'[v] = convState[v]]_vars

====
